---- MODULE Spec2Model ----
(***************************************************************************)
(* Broadcast relay (main.go): one listening UDP socket, a receive loop     *)
(* that fans every datagram out to the configured targets in detached      *)
(* goroutines, a mutex-protected Stats counter, an optional reporter and   *)
(* the Start/Stop lifecycle.                                               *)
(***************************************************************************)
EXTENDS Integers, Sequences, FiniteSets, TLC

(* ------------------------------ bounds -------------------------------- *)
\* datagrams the environment delivers to the listening socket
MaxPackets == 2
\* forwardPacket goroutines the receive loop creates in one run
MaxOps == 3
\* Config.BufferSize, scaled down; also the longest datagram delivered
BufferSize == 2
\* read errors (not timeouts, not close-induced) the environment injects
MaxReadErrors == 1

(* ----------------------------- addresses ------------------------------ *)
None == "none"

\* a target string "host:port"; port 0 stands for a string without a port,
\* host "?" for a name that does not resolve
TargetStrings ==
    { [host |-> "A", port |-> 1], [host |-> "A", port |-> 2],
      [host |-> "B", port |-> 1], [host |-> "?", port |-> 1],
      [host |-> "A", port |-> 0] }

KnownHosts == {"A", "B"}

\* the zero *net.UDPAddr
NoAddr == [IP |-> [form |-> "v4", host |-> ""], Port |-> 0]

\* net.ResolveUDPAddr as NewRelay uses it: an error for a string without a
\* port or with a host that does not resolve, else a *net.UDPAddr
ResolveUDPAddr(s) ==
    IF s.port = 0 \/ s.host \notin KnownHosts
    THEN [err |-> TRUE, addr |-> NoAddr]
    ELSE [err |-> FALSE,
          addr |-> [IP |-> [form |-> "v16", host |-> s.host], Port |-> s.port]]

\* net.IP.Equal: an IPv4 address and its 16-byte form are the same address
IPEqual(x, y) == x.host = y.host

\* the IP alone decides (drops the port comparison)
SkipTargetIPOnly(srcAddr, target) == IPEqual(srcAddr.IP, target.IP)

\* receiveLoop's loop-prevention test
SkipTarget(srcAddr, target) ==
    IPEqual(srcAddr.IP, target.IP) /\ srcAddr.Port = target.Port

\* source addresses datagrams arrive from
Sources ==
    { [IP |-> [form |-> "v4", host |-> "A"], Port |-> 1],
      [IP |-> [form |-> "v16", host |-> "A"], Port |-> 2] }

\* payloads: l bytes, each of value l
Payloads == { [i \in 1..l |-> l] : l \in 1..BufferSize }

Datagrams == [src : Sources, payload : Payloads]

NoDatagram == [src |-> NoAddr, payload |-> << >>]

(* ------------------------------- stats -------------------------------- *)
ZeroStats ==
    [PacketsReceived |-> 0, PacketsForwarded |-> 0, BytesReceived |-> 0,
     BytesForwarded |-> 0, Errors |-> 0]

\* sync.RWMutex: Lock needs no writer and no reader, RLock needs no writer
MuFree == [writer |-> None, readers |-> {}]
CanLock(m) == m.writer = None /\ m.readers = {}
CanRLockUnguarded(m) == TRUE
CanRLock(m) == m.writer = None

\* the two statements of AddReceived, of AddForwarded, the one of AddError
AddReceivedPackets(s) == [s EXCEPT !.PacketsReceived = @ + 1]
AddReceivedBytesAssign(s, bytes) == [s EXCEPT !.BytesReceived = bytes]
AddReceivedBytes(s, bytes) == [s EXCEPT !.BytesReceived = @ + bytes]
AddForwardedPacketsToReceived(s) == [s EXCEPT !.PacketsReceived = @ + 1]
AddForwardedPackets(s) == [s EXCEPT !.PacketsForwarded = @ + 1]
AddForwardedBytesToReceived(s, bytes) == [s EXCEPT !.BytesReceived = @ + bytes]
AddForwardedBytes(s, bytes) == [s EXCEPT !.BytesForwarded = @ + bytes]
AddErrorCountTwice(s) == [s EXCEPT !.Errors = @ + 2]
AddErrorCount(s) == [s EXCEPT !.Errors = @ + 1]

(* ------------------------------- state -------------------------------- *)
VARIABLES
    mainPc,       \* main goroutine: construction, Start, Stop
    config,       \* Relay.config (TargetAddrs, Verbose)
    conn,         \* Relay.conn: "none", "open", "closed"
    targetConns,  \* Relay.targetConns
    stopChan,     \* Relay.stopChan: "open", "closed"
    wg,           \* Relay.wg counter
    stats,        \* Relay.stats counters
    mu,           \* Relay.stats.mu
    rl,           \* receiveLoop goroutine: pc, n, srcAddr, loop index, ...
    buffer,       \* receiveLoop's reused receive buffer
    ops,          \* forwardPacket goroutines, in dispatch order
    rep,          \* statsReporter goroutine
    snap,         \* value String() has read, per reader, while it holds RLock
    env,          \* environment inputs of construction
    logged,       \* kinds of log lines written so far
    pkts,         \* history: datagrams read, in order
    hist          \* history counters

vars == << mainPc, config, conn, targetConns, stopChan, wg, stats, mu, rl,
           buffer, ops, rep, snap, env, logged, pkts, hist >>

(* ------------------------------ helpers ------------------------------- *)
\* receiveLoop's locals before the first read and after each iteration
RlIdle(pc) ==
    [pc |-> pc, n |-> 0, srcAddr |-> NoAddr, i |-> 0, incoming |-> NoDatagram,
     err |-> None]

\* buffer := make([]byte, r.config.BufferSize)
ZeroBuffer == [i \in 1..BufferSize |-> 0]

\* what a reader of the buffer can see: while ReadFromUDP is copying a
\* datagram into it, any mix of the bytes before and after the copy
VisibleBuffers ==
    IF rl.pc = "copying"
    THEN { [i \in 1..BufferSize |->
              IF i \in S THEN rl.incoming.payload[i] ELSE buffer[i]] :
           S \in SUBSET (1..Len(rl.incoming.payload)) }
    ELSE { buffer }

\* log.Printf lines that are written only in verbose mode
VerboseLog(tag) == IF config.Verbose THEN logged \cup {tag} ELSE logged

\* log.Printf lines of the error paths: written whatever Verbose is
ErrorLogIfVerbose(tag) == VerboseLog(tag)
ErrorLog(tag) == logged \cup {tag}

\* `continue` after a read timeout: back to the select on r.stopChan
ContinueToRead == "read"
ContinueAfterTimeout == "select"

\* r.wg.Wait() returns when the counter is zero
WgWaitSkipped(w) == TRUE
WgWaitReturns(w) == w = 0

\* wg.Add calls of Start: one for receiveLoop, one for statsReporter
WgAfterStartNoReporter(verbose) == 1
WgAfterStartBoth(verbose) == 2
WgAfterStart(verbose) == IF verbose THEN 2 ELSE 1

\* `go r.forwardPacket(data, target)` never blocks the receive loop
CallForwardPacketReady(o) == \A k \in 1..Len(o) : o[k].pc = "done"
GoForwardPacketReady(o) == TRUE

\* line 229 does not register the goroutine with r.wg
WgAfterDispatchAdd(w) == w + 1
WgAfterDispatch(w) == w

\* `case <-r.stopChan` of the select after a read error
ErrSelStopNever(ch) == FALSE
ErrSelStopAlways(ch) == TRUE
ErrSelStop(ch) == ch = "closed"

\* history: reads returned after the stop signal, injected read errors,
\* those of them returned before the stop signal, those the loop found the
\* stop signal not raised for, the counters as of the last Unlock
NoHist ==
    [readsAfterStop |-> 0, readErrors |-> 0, readErrorsRunning |-> 0,
     readErrorsKept |-> 0, committed |-> ZeroStats]

(* ------------------------- state after NewRelay ------------------------ *)
\* the Relay NewRelay returns for a config whose targets all resolve
Constructed(cfg, e, lg) ==
    /\ mainPc = "created"
    /\ config = cfg
    /\ conn = "open"
    /\ targetConns = [k \in 1..Len(cfg.TargetAddrs) |->
                        ResolveUDPAddr(cfg.TargetAddrs[k]).addr]
    /\ stopChan = "open"
    /\ wg = 0
    /\ stats = ZeroStats
    /\ mu = MuFree
    /\ rl = RlIdle("idle")
    /\ buffer = ZeroBuffer
    /\ ops = << >>
    /\ rep = "idle"
    /\ snap = [r \in {"rep", "main"} |-> ZeroStats]
    /\ env = e
    /\ logged = lg
    /\ pkts = << >>
    /\ hist = NoHist

A1 == [host |-> "A", port |-> 1]
A2 == [host |-> "A", port |-> 2]
B1 == [host |-> "B", port |-> 1]

\* the configurations main hands to NewRelay
Configs ==
    { [TargetAddrs |-> << A1 >>, Verbose |-> TRUE],
      [TargetAddrs |-> << A2 >>, Verbose |-> FALSE],
      [TargetAddrs |-> << A1, B1 >>, Verbose |-> FALSE],
      [TargetAddrs |-> << A1, A2 >>, Verbose |-> TRUE] }

\* the command line and the host that let main construct config c
EnvFor(c) ==
    [entry |-> "main",
     fields |-> [k \in 1..Len(c.TargetAddrs) |->
                   [pad |-> FALSE, s |-> c.TargetAddrs[k]]],
     showVersion |-> FALSE, listenOK |-> TRUE, bindOK |-> TRUE,
     bufOK |-> TRUE]

Init == \E c \in Configs : Constructed(c, EnvFor(c), {})

(* ---------------------- parseConfig and NewRelay ----------------------- *)
\* the empty string
Empty == [host |-> "", port |-> 0]

\* one comma-separated field of the -targets flag: a target string, with
\* or without surrounding blanks
Fields ==
    { [pad |-> p, s |-> x] :
        p \in BOOLEAN, x \in {Empty, A1, B1, [host |-> "?", port |-> 1]} }

\* strings.TrimSpace
TrimSpace(f) == f.s

\* targets == "": strings.Split gives the one empty field
IsEmptyFlag(fields) == fields = << [pad |-> FALSE, s |-> Empty] >>

RECURSIVE TargetAddrsOf(_)
\* the loop over strings.Split(targets, ","): trimmed, empty ones dropped
TargetAddrsOf(fields) ==
    IF fields = << >> THEN << >>
    ELSE LET target == TrimSpace(Head(fields))
         IN (IF target # Empty THEN << target >> ELSE << >>)
            \o TargetAddrsOf(Tail(fields))

RECURSIVE ResolveTargetsSkipBad(_)
\* an entry that does not resolve is dropped instead of failing
ResolveTargetsSkipBad(addrs) ==
    IF addrs = << >> THEN [err |-> FALSE, conns |-> << >>]
    ELSE LET r == ResolveUDPAddr(Head(addrs))
             rest == ResolveTargetsSkipBad(Tail(addrs))
         IN [err |-> FALSE,
             conns |-> (IF r.err THEN << >> ELSE << r.addr >>) \o rest.conns]

RECURSIVE ResolveTargets(_)
\* NewRelay's loop over config.TargetAddrs: the first entry that does not
\* resolve makes NewRelay return the error
ResolveTargets(addrs) ==
    IF addrs = << >> THEN [err |-> FALSE, conns |-> << >>]
    ELSE LET r == ResolveUDPAddr(Head(addrs))
             rest == ResolveTargets(Tail(addrs))
         IN IF r.err \/ rest.err THEN [err |-> TRUE, conns |-> << >>]
            ELSE [err |-> FALSE, conns |-> << r.addr >> \o rest.conns]

\* everything but the main goroutine's position, the config, the targets,
\* the socket, the log and the environment, as NewRelay's first statement
\* leaves it
FreshRelay ==
    /\ stopChan = "open"
    /\ wg = 0
    /\ stats = ZeroStats
    /\ mu = MuFree
    /\ rl = RlIdle("idle")
    /\ buffer = ZeroBuffer
    /\ ops = << >>
    /\ rep = "idle"
    /\ snap = [r \in {"rep", "main"} |-> ZeroStats]
    /\ pkts = << >>
    /\ hist = NoHist

MaxFields == 2

FieldLists == UNION { [1..l -> Fields] : l \in 1..MaxFields }

\* Config values a caller can hand to NewRelay
AnyTargetLists == UNION { [1..l -> TargetStrings] : l \in 0..MaxFields }

\* before construction: main about to call parseConfig on a command
\* line, or a caller about to call NewRelay on a Config value
InitCtor ==
    /\ FreshRelay
    /\ conn = "none" /\ targetConns = << >> /\ logged = {}
    /\ \E v \in BOOLEAN, l \in BOOLEAN, b \in BOOLEAN, u \in BOOLEAN :
          \/ \E f \in FieldLists, sv \in BOOLEAN :
                /\ mainPc = "parseConfig"
                /\ config = [TargetAddrs |-> << >>, Verbose |-> v]
                /\ env = [entry |-> "main", fields |-> f, showVersion |-> sv,
                          listenOK |-> l, bindOK |-> b, bufOK |-> u]
          \/ \E t \in AnyTargetLists :
                /\ mainPc = "NewRelay"
                /\ config = [TargetAddrs |-> t, Verbose |-> v]
                /\ env = [entry |-> "caller", fields |-> << >>,
                          showVersion |-> FALSE,
                          listenOK |-> l, bindOK |-> b, bufOK |-> u]

ctorFrame ==
    UNCHANGED << stopChan, wg, stats, mu, rl, buffer, ops, rep, snap, env,
                 pkts, hist >>

\* parseConfig after flag.Parse: -version, the empty -targets flag, the
\* split and trim loop, the check that a target is left
parseConfig ==
    /\ mainPc = "parseConfig"
    /\ IF env.showVersion
       THEN mainPc' = "exit0" /\ UNCHANGED << config, logged >>
       ELSE IF IsEmptyFlag(env.fields)
       THEN /\ mainPc' = "exit1"
            /\ logged' = logged \cup {"Error: -targets is required"}
            /\ UNCHANGED config
       ELSE IF Len(TargetAddrsOf(env.fields)) = 0
       THEN /\ mainPc' = "exit1"
            /\ logged' = logged \cup
                  {"Error: at least one valid target address is required"}
            /\ config' = [config EXCEPT !.TargetAddrs = << >>]
       ELSE /\ mainPc' = "NewRelay"
            /\ config' = [config EXCEPT
                             !.TargetAddrs = TargetAddrsOf(env.fields)]
            /\ UNCHANGED logged
    /\ UNCHANGED << conn, targetConns >>
    /\ ctorFrame

\* NewRelay: the Relay value and the resolution of the targets
nr_resolve ==
    /\ mainPc = "NewRelay"
    /\ LET r == ResolveTargets(config.TargetAddrs)
       IN IF r.err
          THEN mainPc' = "failed" /\ UNCHANGED targetConns
          ELSE mainPc' = "NewRelay_listen" /\ targetConns' = r.conns
    /\ UNCHANGED << config, conn, logged >>
    /\ ctorFrame

\* NewRelay: the listen address is resolved and the socket bound
nr_listen ==
    /\ mainPc = "NewRelay_listen"
    /\ IF env.listenOK /\ env.bindOK
       THEN mainPc' = "NewRelay_buffer" /\ conn' = "open"
       ELSE mainPc' = "failed" /\ UNCHANGED conn
    /\ UNCHANGED << config, targetConns, logged >>
    /\ ctorFrame

\* a NewRelay that returned the SetReadBuffer error
nr_bufferFatal ==
    /\ mainPc = "NewRelay_buffer"
    /\ mainPc' = IF env.bufOK THEN "created" ELSE "failed"
    /\ logged' = IF env.bufOK THEN logged
                 ELSE logged \cup {"Failed to create relay"}
    /\ UNCHANGED << config, conn, targetConns >>
    /\ ctorFrame

\* NewRelay: SetReadBuffer (a failure is logged as a warning), return
nr_buffer ==
    /\ mainPc = "NewRelay_buffer"
    /\ mainPc' = "created"
    /\ logged' = IF env.bufOK THEN logged
                 ELSE logged \cup {"Warning: failed to set read buffer size"}
    /\ UNCHANGED << config, conn, targetConns >>
    /\ ctorFrame

NewRelay == nr_resolve \/ nr_listen \/ nr_buffer

NextCtor == parseConfig \/ NewRelay

SpecCtor == InitCtor /\ [][NextCtor]_vars

(* ------------------------------- Start -------------------------------- *)
Start ==
    /\ mainPc = "created"
    /\ mainPc' = "running"
    /\ logged' = logged \cup {"Starting"}
    /\ wg' = WgAfterStart(config.Verbose)
    /\ rl' = RlIdle("select")
    /\ rep' = IF config.Verbose THEN "select" ELSE rep
    /\ UNCHANGED << config, conn, targetConns, stopChan, stats, mu, buffer,
                    ops, snap, env, pkts, hist >>

(* ---------------------------- receiveLoop ----------------------------- *)
\* select { case <-r.stopChan: return; default: }, then SetReadDeadline
\* (its error on a closed socket is ignored)
rl_select ==
    /\ rl.pc = "select"
    /\ IF stopChan = "closed"
       THEN rl' = RlIdle("exited") /\ wg' = wg - 1
       ELSE rl' = [rl EXCEPT !.pc = "read"] /\ UNCHANGED wg
    /\ UNCHANGED << mainPc, config, conn, targetConns, stopChan, stats, mu,
                    buffer, ops, rep, snap, env, logged, pkts, hist >>

CountRead(h) ==
    IF stopChan = "closed" THEN [h EXCEPT !.readsAfterStop = @ + 1] ELSE h

\* ReadFromUDP returns a timeout: continue
rl_read_timeout ==
    /\ rl.pc = "read" /\ conn = "open"
    /\ rl' = RlIdle(ContinueAfterTimeout)
    /\ hist' = CountRead(hist)
    /\ UNCHANGED << mainPc, config, conn, targetConns, stopChan, wg, stats,
                    mu, buffer, ops, rep, snap, env, logged, pkts >>

\* ReadFromUDP fails because Stop closed the socket
rl_read_closed ==
    /\ rl.pc = "read" /\ conn = "closed"
    /\ rl' = [rl EXCEPT !.pc = "errsel", !.err = "closed"]
    /\ hist' = CountRead(hist)
    /\ UNCHANGED << mainPc, config, conn, targetConns, stopChan, wg, stats,
                    mu, buffer, ops, rep, snap, env, logged, pkts >>

\* ReadFromUDP fails on the open socket with an error that is no timeout;
\* err records whether the stop signal was raised when it returned
rl_read_error ==
    /\ rl.pc = "read" /\ conn = "open"
    /\ hist.readErrors < MaxReadErrors
    /\ rl' = [rl EXCEPT !.pc = "errsel",
                        !.err = IF stopChan = "open" THEN "genuine"
                                ELSE "genuine_stopping"]
    /\ hist' = [CountRead(hist) EXCEPT
                   !.readErrors = @ + 1,
                   !.readErrorsRunning =
                       IF stopChan = "open" THEN @ + 1 ELSE @]
    /\ UNCHANGED << mainPc, config, conn, targetConns, stopChan, wg, stats,
                    mu, buffer, ops, rep, snap, env, logged, pkts >>

\* forwardPacket goroutines datagram d will make the loop create
NumForwards(d) ==
    Cardinality({ t \in 1..Len(targetConns) :
                    ~SkipTarget(d.src, targetConns[t]) })

\* ReadFromUDP starts copying a datagram into the buffer
rl_read_datagram ==
    /\ rl.pc = "read" /\ conn = "open"
    /\ Len(pkts) < MaxPackets
    /\ \E d \in Datagrams :
          /\ Len(ops) + NumForwards(d) <= MaxOps
          /\ rl' = [rl EXCEPT !.pc = "copying", !.incoming = d]
    /\ hist' = CountRead(hist)
    /\ UNCHANGED << mainPc, config, conn, targetConns, stopChan, wg, stats,
                    mu, buffer, ops, rep, snap, env, logged, pkts >>

\* ReadFromUDP returns n, srcAddr, nil
rl_read_done ==
    /\ rl.pc = "copying"
    /\ buffer' = [i \in 1..BufferSize |->
                    IF i <= Len(rl.incoming.payload)
                    THEN rl.incoming.payload[i] ELSE buffer[i]]
    /\ pkts' = Append(pkts, rl.incoming)
    /\ rl' = [rl EXCEPT !.pc = "rx_wait", !.n = Len(rl.incoming.payload),
                        !.srcAddr = rl.incoming.src, !.incoming = NoDatagram]
    /\ UNCHANGED << mainPc, config, conn, targetConns, stopChan, wg, stats,
                    mu, ops, rep, snap, env, logged, hist >>

\* the select after a read error that is no timeout: return if the stop
\* signal is raised, else log and call AddError
rl_errsel ==
    /\ rl.pc = "errsel"
    /\ IF ErrSelStop(stopChan)
       THEN /\ rl' = RlIdle("exited")
            /\ wg' = wg - 1
            /\ UNCHANGED << logged, hist >>
       ELSE /\ rl' = [rl EXCEPT !.pc = "err_wait"]
            /\ logged' = ErrorLog("Error reading UDP packet")
            /\ hist' = [hist EXCEPT !.readErrorsKept = @ + 1]
            /\ UNCHANGED wg
    /\ UNCHANGED << mainPc, config, conn, targetConns, stopChan, stats, mu,
                    buffer, ops, rep, snap, env, pkts >>

\* r.stats.AddError(): Lock, s.Errors++, Unlock; continue
rl_AddError ==
    /\ rl.pc = "err_wait" /\ CanLock(mu)
    /\ stats' = AddErrorCount(stats)
    /\ hist' = [hist EXCEPT !.committed = stats']
    /\ rl' = RlIdle("select")
    /\ UNCHANGED << mainPc, config, conn, targetConns, stopChan, wg, mu,
                    buffer, ops, rep, snap, env, logged, pkts >>

\* r.stats.AddReceived(n): Lock, s.PacketsReceived++
rl_AddReceived_packets ==
    /\ rl.pc = "rx_wait" /\ CanLock(mu)
    /\ mu' = [mu EXCEPT !.writer = "rl"]
    /\ stats' = AddReceivedPackets(stats)
    /\ rl' = [rl EXCEPT !.pc = "rx_bytes"]
    /\ UNCHANGED << mainPc, config, conn, targetConns, stopChan, wg, buffer,
                    ops, rep, snap, env, logged, pkts, hist >>

\* r.stats.AddReceived(n): s.BytesReceived += bytes, Unlock; the verbose
\* log line; data := buffer[:n] and the first target
rl_AddReceived_bytes ==
    /\ rl.pc = "rx_bytes"
    /\ stats' = AddReceivedBytes(stats, rl.n)
    /\ mu' = [mu EXCEPT !.writer = None]
    /\ hist' = [hist EXCEPT !.committed = stats']
    /\ logged' = VerboseLog("Received")
    /\ rl' = IF Len(targetConns) = 0 THEN RlIdle("select")
             ELSE [rl EXCEPT !.pc = "fanout", !.i = 1]
    /\ UNCHANGED << mainPc, config, conn, targetConns, stopChan, wg, buffer,
                    ops, rep, snap, env, pkts >>

\* the goroutine `go r.forwardPacket(data, target)` creates: data is the
\* slice buffer[:n], so the goroutine holds n and shares the buffer
NewOp(p, t, n) ==
    [pkt |-> p, tgt |-> t, n |-> n, pc |-> "start", wrote |-> << >>,
     res |-> None]

\* one iteration of `for _, target := range r.targetConns`
rl_fanout ==
    /\ rl.pc = "fanout"
    /\ IF SkipTarget(rl.srcAddr, targetConns[rl.i])
       THEN /\ logged' = VerboseLog("Skipping forward to source")
            /\ UNCHANGED << ops, wg >>
       ELSE /\ GoForwardPacketReady(ops)
            /\ ops' = Append(ops, NewOp(Len(pkts), rl.i, rl.n))
            /\ wg' = WgAfterDispatch(wg)
            /\ UNCHANGED logged
    /\ rl' = IF rl.i = Len(targetConns) THEN RlIdle("select")
             ELSE [rl EXCEPT !.i = @ + 1]
    /\ UNCHANGED << mainPc, config, conn, targetConns, stopChan, stats, mu,
                    buffer, rep, snap, env, pkts, hist >>

receiveLoop ==
    \/ rl_select
    \/ rl_read_timeout \/ rl_read_closed \/ rl_read_error
    \/ rl_read_datagram \/ rl_read_done
    \/ rl_errsel \/ rl_AddError
    \/ rl_AddReceived_packets \/ rl_AddReceived_bytes
    \/ rl_fanout

(* ---------------------------- forwardPacket --------------------------- *)
\* net.DialUDP fails: log, then AddError
fp_dial_err(k) ==
    /\ ops[k].pc = "start"
    /\ ops' = [ops EXCEPT ![k].pc = "err_wait", ![k].res = "connect"]
    /\ logged' = ErrorLog("Error connecting to target")
    /\ UNCHANGED << mainPc, config, conn, targetConns, stopChan, wg, stats,
                    mu, rl, buffer, rep, snap, env, pkts, hist >>

\* the bytes conn.Write(data) sends: data still aliases the receive buffer
WrittenBytes(k) == { SubSeq(b, 1, ops[k].n) : b \in VisibleBuffers }

\* net.DialUDP succeeds and conn.Write(data) succeeds
fp_write_ok(k) ==
    /\ ops[k].pc = "start"
    /\ \E w \in WrittenBytes(k) :
          ops' = [ops EXCEPT ![k].pc = "fw_wait", ![k].res = "ok",
                             ![k].wrote = w]
    /\ UNCHANGED << mainPc, config, conn, targetConns, stopChan, wg, stats,
                    mu, rl, buffer, rep, snap, env, logged, pkts, hist >>

\* net.DialUDP succeeds and conn.Write(data) fails: log, then AddError
fp_write_err(k) ==
    /\ ops[k].pc = "start"
    /\ ops' = [ops EXCEPT ![k].pc = "err_wait", ![k].res = "write"]
    /\ logged' = ErrorLog("Error forwarding")
    /\ UNCHANGED << mainPc, config, conn, targetConns, stopChan, wg, stats,
                    mu, rl, buffer, rep, snap, env, pkts, hist >>

\* r.stats.AddError(): Lock, s.Errors++, Unlock; return
fp_AddError(k) ==
    /\ ops[k].pc = "err_wait" /\ CanLock(mu)
    /\ stats' = AddErrorCount(stats)
    /\ hist' = [hist EXCEPT !.committed = stats']
    /\ ops' = [ops EXCEPT ![k].pc = "done"]
    /\ UNCHANGED << mainPc, config, conn, targetConns, stopChan, wg, mu, rl,
                    buffer, rep, snap, env, logged, pkts >>

\* r.stats.AddForwarded(n): Lock, s.PacketsForwarded++
fp_AddForwarded_packets(k) ==
    /\ ops[k].pc = "fw_wait" /\ CanLock(mu)
    /\ mu' = [mu EXCEPT !.writer = "op"]
    /\ stats' = AddForwardedPackets(stats)
    /\ ops' = [ops EXCEPT ![k].pc = "fw_bytes"]
    /\ UNCHANGED << mainPc, config, conn, targetConns, stopChan, wg, rl,
                    buffer, rep, snap, env, logged, pkts, hist >>

\* r.stats.AddForwarded(n): s.BytesForwarded += bytes, Unlock; the verbose
\* log line; return
fp_AddForwarded_bytes(k) ==
    /\ ops[k].pc = "fw_bytes"
    /\ stats' = AddForwardedBytes(stats, Len(ops[k].wrote))
    /\ mu' = [mu EXCEPT !.writer = None]
    /\ hist' = [hist EXCEPT !.committed = stats']
    /\ logged' = VerboseLog("Forwarded")
    /\ ops' = [ops EXCEPT ![k].pc = "done"]
    /\ UNCHANGED << mainPc, config, conn, targetConns, stopChan, wg, rl,
                    buffer, rep, snap, env, pkts >>

forwardPacket(k) ==
    /\ k \in 1..Len(ops)
    /\ \/ fp_dial_err(k) \/ fp_write_ok(k) \/ fp_write_err(k)
       \/ fp_AddError(k)
       \/ fp_AddForwarded_packets(k) \/ fp_AddForwarded_bytes(k)

(* ---------------------------- statsReporter --------------------------- *)
\* select: case <-r.stopChan: return
rep_stop ==
    /\ rep = "select" /\ stopChan = "closed"
    /\ rep' = "exited"
    /\ wg' = wg - 1
    /\ UNCHANGED << mainPc, config, conn, targetConns, stopChan, stats, mu,
                    rl, buffer, ops, snap, env, logged, pkts, hist >>

\* select: case <-ticker.C: r.stats.String() is called
rep_tick ==
    /\ rep = "select"
    /\ rep' = "rlock"
    /\ UNCHANGED << mainPc, config, conn, targetConns, stopChan, wg, stats,
                    mu, rl, buffer, ops, snap, env, logged, pkts, hist >>

\* String(): RLock; Sprintf reads the five counters
rep_String ==
    /\ rep = "rlock" /\ CanRLock(mu)
    /\ mu' = [mu EXCEPT !.readers = @ \cup {"rep"}]
    /\ snap' = [snap EXCEPT !["rep"] = stats]
    /\ rep' = "runlock"
    /\ UNCHANGED << mainPc, config, conn, targetConns, stopChan, wg, stats,
                    rl, buffer, ops, env, logged, pkts, hist >>

\* a reporter that starts the counters afresh after each report
rep_logAndReset ==
    /\ rep = "runlock"
    /\ mu' = [mu EXCEPT !.readers = @ \ {"rep"}]
    /\ logged' = logged \cup {"Stats"}
    /\ snap' = [snap EXCEPT !["rep"] = ZeroStats]
    /\ rep' = "select"
    /\ stats' = ZeroStats
    /\ hist' = [hist EXCEPT !.committed = ZeroStats]
    /\ UNCHANGED << mainPc, config, conn, targetConns, stopChan, wg,
                    rl, buffer, ops, env, pkts >>

\* String(): RUnlock; log.Printf("Stats: %s", ...)
rep_log ==
    /\ rep = "runlock"
    /\ mu' = [mu EXCEPT !.readers = @ \ {"rep"}]
    /\ logged' = logged \cup {"Stats"}
    /\ snap' = [snap EXCEPT !["rep"] = ZeroStats]
    /\ rep' = "select"
    /\ UNCHANGED << mainPc, config, conn, targetConns, stopChan, wg, stats,
                    rl, buffer, ops, env, pkts, hist >>

statsReporter == rep_stop \/ rep_tick \/ rep_String \/ rep_log

(* -------------------------------- Stop -------------------------------- *)
\* log.Println("Stopping relay..."); close(r.stopChan)
stop_signal ==
    /\ mainPc = "running"
    /\ mainPc' = "stop_signalled"
    /\ stopChan' = "closed"
    /\ logged' = logged \cup {"Stopping relay..."}
    /\ UNCHANGED << config, conn, targetConns, wg, stats, mu, rl, buffer,
                    ops, rep, snap, env, pkts, hist >>

\* r.conn.Close()
stop_close ==
    /\ mainPc = "stop_signalled"
    /\ mainPc' = "conn_closed"
    /\ conn' = "closed"
    /\ UNCHANGED << config, targetConns, stopChan, wg, stats, mu, rl, buffer,
                    ops, rep, snap, env, logged, pkts, hist >>

\* r.wg.Wait() returns
stop_wait ==
    /\ mainPc = "conn_closed" /\ WgWaitReturns(wg)
    /\ mainPc' = "final_rlock"
    /\ UNCHANGED << config, conn, targetConns, stopChan, wg, stats, mu, rl,
                    buffer, ops, rep, snap, env, logged, pkts, hist >>

\* r.stats.String(): RLock; Sprintf reads the five counters
stop_String ==
    /\ mainPc = "final_rlock" /\ CanRLock(mu)
    /\ mu' = [mu EXCEPT !.readers = @ \cup {"main"}]
    /\ snap' = [snap EXCEPT !["main"] = stats]
    /\ mainPc' = "final_runlock"
    /\ UNCHANGED << config, conn, targetConns, stopChan, wg, stats, rl,
                    buffer, ops, rep, env, logged, pkts, hist >>

\* r.stats.String(): RUnlock; the "Final stats" and "Relay stopped" lines
stop_log ==
    /\ mainPc = "final_runlock"
    /\ mu' = [mu EXCEPT !.readers = @ \ {"main"}]
    /\ logged' = logged \cup {"Final stats", "Relay stopped"}
    /\ mainPc' = "stopped"
    /\ UNCHANGED << config, conn, targetConns, stopChan, wg, stats, rl,
                    buffer, ops, rep, snap, env, pkts, hist >>

Stop == stop_signal \/ stop_close \/ stop_wait \/ stop_String \/ stop_log

(* ---------------------------- specification --------------------------- *)
Next ==
    \/ Start
    \/ receiveLoop
    \/ \E k \in 1..MaxOps : forwardPacket(k)
    \/ statsReporter
    \/ Stop

Spec == Init /\ [][Next]_vars

\* Scheduling: the Go runtime runs a goroutine that stays runnable, the
\* read deadline bounds every read, and a select that finds the stop
\* channel closed again and again takes that case eventually (it picks
\* among its ready cases at random). The signal that makes main call Stop
\* is up to the environment, and so is every received datagram.
Fairness ==
    /\ WF_vars(receiveLoop)
    /\ WF_vars(\E k \in 1..MaxOps : forwardPacket(k))
    /\ SF_vars(rep_stop)
    /\ WF_vars(rep_String \/ rep_log)
    /\ WF_vars(stop_close \/ stop_wait \/ stop_String \/ stop_log)

\* one target, with and without the reporter
SmallConfigs == { c \in Configs : Len(c.TargetAddrs) = 1 }

InitSmall == \E c \in SmallConfigs : Constructed(c, EnvFor(c), {})

FairSpec == InitSmall /\ [][Next]_vars /\ Fairness

(* ============================== claims ================================ *)
\* ops created for datagram p and target index t
OpsFor(p, t) == { k \in 1..Len(ops) : ops[k].pkt = p /\ ops[k].tgt = t }

\* the fan-out loop has finished target index t of datagram p
FannedOut(p, t) ==
    \/ p < Len(pkts)
    \/ /\ p = Len(pkts)
       /\ \/ rl.pc \in {"select", "read", "copying", "errsel", "err_wait",
                        "exited"}
          \/ rl.pc = "fanout" /\ rl.i > t

\* same (IP, port): the same host address, in either byte form, and port
SameEndpoint(a, b) == a.IP.host = b.IP.host /\ a.Port = b.Port

StopRequested == stopChan = "closed"

InFlight == { k \in 1..Len(ops) : ops[k].pc # "done" }

\* C1: for every datagram read from S, once the fan-out loop has passed a
\* target entry there is exactly one forward operation for it if its
\* (IP, port) differs from S's and none if it equals S's; before that there
\* is none; this in every state, whatever is in flight or requested.
C1_FanOut ==
    \A p \in 1..Len(pkts) : \A t \in 1..Len(targetConns) :
        Cardinality(OpsFor(p, t)) =
            IF FannedOut(p, t) /\ ~SameEndpoint(pkts[p].src, targetConns[t])
            THEN 1 ELSE 0

\* the stop signal is raised, the loop has exited, earlier forwards are in
\* flight; the first datagram came from A:1 (first target skipped, the
\* second, sharing only the port, forwarded to), the second from A:2 (both
\* forwarded to, the first sharing only the IP)
C1_Witness ==
    /\ StopRequested /\ rl.pc = "exited"
    /\ config.TargetAddrs = << A1, B1 >>
    /\ Len(pkts) = 2 /\ pkts[1].src.Port = 1 /\ pkts[2].src.Port = 2
    /\ Len(ops) = 3 /\ InFlight = {1, 2, 3}

\* C2: what a forward operation wrote is the payload of the datagram whose
\* receipt dispatched it.
C2_PayloadIntact ==
    \A k \in 1..Len(ops) :
        ops[k].res = "ok" => ops[k].wrote = pkts[ops[k].pkt].payload

RECURSIVE SumSizes(_, _)
\* the sum of the sizes of the datagrams with the indices in S
SumSizes(S, acc) ==
    IF S = {} THEN acc
    ELSE LET p == CHOOSE x \in S : TRUE
         IN SumSizes(S \ {p}, acc + Len(pkts[p].payload))

RECURSIVE SumOps(_, _)
\* the sum of the sizes of the datagrams of the forward operations in K
SumOps(K, acc) ==
    IF K = {} THEN acc
    ELSE LET k == CHOOSE x \in K : TRUE
         IN SumOps(K \ {k}, acc + Len(pkts[ops[k].pkt].payload))

\* datagrams whose AddReceived has returned
ReceivedDone ==
    IF rl.pc \in {"rx_wait", "rx_bytes"} THEN 1..(Len(pkts) - 1)
    ELSE 1..Len(pkts)

\* forward operations that wrote successfully and whose AddForwarded has
\* returned
ForwardedDone == { k \in 1..Len(ops) : ops[k].pc = "done" /\ ops[k].res = "ok" }

\* C3: with k datagrams processed by AddReceived and m forward operations
\* completed successfully, PacketsReceived = k, BytesReceived = the sum of
\* their sizes, PacketsForwarded = m, BytesForwarded = the sum of the sizes
\* of the forwarded datagrams; a caller inside AddReceived or AddForwarded
\* accounts for the one packet counted whose bytes are not yet added.
C3_StatsAccounting ==
    /\ stats.PacketsReceived =
          Cardinality(ReceivedDone) + (IF rl.pc = "rx_bytes" THEN 1 ELSE 0)
    /\ stats.BytesReceived = SumSizes(ReceivedDone, 0)
    /\ stats.PacketsForwarded =
          Cardinality(ForwardedDone)
          + Cardinality({ k \in 1..Len(ops) : ops[k].pc = "fw_bytes" })
    /\ stats.BytesForwarded = SumOps(ForwardedDone, 0)
    /\ mu.writer = None =>
          /\ stats.PacketsReceived = Cardinality(ReceivedDone)
          /\ stats.PacketsForwarded = Cardinality(ForwardedDone)

\* two datagrams of different sizes counted, two forwards counted, a third
\* waiting for the mutex
C3_Witness ==
    /\ stats.PacketsReceived = 2 /\ stats.BytesReceived = 3
    /\ stats.PacketsForwarded = 2 /\ stats.BytesForwarded = 3
    /\ \E k \in 1..Len(ops) : ops[k].pc = "fw_wait"

\* the holder of the stats mutex can always take its next step
HolderProceeds ==
    /\ mu.writer = "rl" => ENABLED rl_AddReceived_bytes
    /\ mu.writer = "op" =>
          \E k \in 1..Len(ops) : ENABLED fp_AddForwarded_bytes(k)
    /\ "rep" \in mu.readers => ENABLED rep_log
    /\ "main" \in mu.readers => ENABLED stop_log

\* C4: the receive loop, once started and until it exits, can always take
\* its next step (dispatch to the next target, read the next datagram)
\* whatever state the forward operations are in, and so can every forward
\* operation that has not completed, whatever state the others are in; the
\* one thing either waits for is the stats mutex, whose holder can always
\* proceed.
C4_NonInterference ==
    /\ rl.pc \notin {"idle", "exited"} =>
          \/ ENABLED receiveLoop
          \/ rl.pc \in {"rx_wait", "err_wait"} /\ ~CanLock(mu)
    /\ \A k \in 1..Len(ops) :
          ops[k].pc # "done" =>
             \/ ENABLED forwardPacket(k)
             \/ ops[k].pc \in {"fw_wait", "err_wait"} /\ ~CanLock(mu)
    /\ HolderProceeds

\* for the first datagram the forward to the first target failed to
\* connect and the forward to the second succeeded; a later datagram has
\* been read while the forward of an earlier one has not yet completed
C4_Witness ==
    /\ Len(ops) = 3 /\ Len(pkts) = 2
    /\ ops[1].pkt = 1 /\ ops[1].res = "connect"
    /\ ops[2].pkt = 1 /\ ops[2].res = "ok" /\ ops[2].pc = "done"
    /\ ops[3].pkt = 2 /\ ops[3].pc = "start"

\* C6: the receive loop logs and counts a read error only if the error was
\* not caused by Stop closing the socket; a close-induced error is seen
\* only with the stop signal raised.
C6_ShutdownErrorSuppressed ==
    /\ rl.pc = "err_wait" => rl.err = "genuine"
    /\ rl.pc = "errsel" /\ rl.err = "closed" => StopRequested
    /\ hist.readErrors = 0 =>
          /\ "Error reading UDP packet" \notin logged
          /\ stats.Errors =
                Cardinality({ k \in 1..Len(ops) :
                    ops[k].pc = "done" /\ ops[k].res \in {"connect", "write"} })

\* the loop has exited on a close-induced read error, nothing counted
C6_Witness ==
    /\ rl.pc = "exited" /\ hist.readsAfterStop = 1 /\ conn = "closed"
    /\ hist.readErrors = 0 /\ stats.Errors = 0 /\ Len(pkts) = 0

LoopsExited == rl.pc = "exited" /\ rep \in {"idle", "exited"}

\* C5: once the stop signal is raised the receive loop returns from at most
\* one further read, and (under the scheduling stated in Fairness) the
\* receive loop exits, the reporter, if started, exits, and Stop logs the
\* final stats and returns.
C5_ShutdownTerminates ==
    /\ [](hist.readsAfterStop <= 1)
    /\ StopRequested ~>
          (mainPc = "stopped" /\ LoopsExited /\ "Final stats" \in logged)

\* Stop has returned although the signal was raised while the receive loop
\* was between its stop check and the return of its read, which then
\* delivered a datagram that was fanned out
C5_Witness ==
    /\ mainPc = "stopped" /\ hist.readsAfterStop = 1
    /\ Len(pkts) = 1 /\ Len(ops) = 1 /\ conn = "closed"

StopReturned == mainPc = "stopped"

\* Created, Running, StopRequested (from the raising of the stop signal
\* until wg.Wait returns), Stopped
Lifecycle ==
    CASE mainPc = "created" -> "Created"
      [] mainPc = "running" -> "Running"
      [] mainPc \in {"stop_signalled", "conn_closed"} -> "StopRequested"
      [] OTHER -> "Stopped"

\* C7: the lifecycle only moves Created -> Running -> StopRequested ->
\* Stopped; no task runs before Running, the reporter is started exactly
\* in verbose mode, the stop signal is raised exactly from StopRequested
\* on, Stopped is entered only with every started task returned, and in
\* Stopped neither task takes a step again.
C7_Lifecycle ==
    /\ [][Lifecycle' # Lifecycle =>
            << Lifecycle, Lifecycle' >> \in
               { << "Created", "Running" >>, << "Running", "StopRequested" >>,
                 << "StopRequested", "Stopped" >> }]_vars
    /\ [](Lifecycle = "Created" => rl.pc = "idle" /\ rep = "idle")
    /\ [](Lifecycle # "Created" =>
            rl.pc # "idle" /\ (rep # "idle" <=> config.Verbose))
    /\ [](StopRequested <=> Lifecycle \in {"StopRequested", "Stopped"})
    /\ [](Lifecycle = "Stopped" => LoopsExited)
    /\ [][Lifecycle = "Stopped" => rl' = rl /\ rep' = rep]_vars

\* Stopped in verbose mode: both tasks have returned
C7_Witness ==
    /\ Lifecycle = "Stopped" /\ config.Verbose
    /\ rl.pc = "exited" /\ rep = "exited" /\ "Stats" \in logged

\* a target string that names a known host and a port
Resolvable(str) == str.host \in {"A", "B"} /\ str.port # 0

EngineExists == mainPc \notin {"parseConfig", "NewRelay", "NewRelay_listen",
                               "NewRelay_buffer", "failed", "exit0", "exit1"}

\* C8 as stated: NewRelay never returns an engine for an empty target list,
\* an unresolved target or a failed bind.
C8_Original ==
    EngineExists =>
       /\ Len(config.TargetAddrs) >= 1
       /\ \A k \in 1..Len(config.TargetAddrs) : Resolvable(config.TargetAddrs[k])
       /\ env.listenOK /\ env.bindOK

\* C8 (amended): NewRelay returns an error and no engine if a target entry
\* fails resolution or the listen address or the bind fails, so every
\* engine has exactly the configured targets, all resolved, and an open
\* socket; an empty target list is rejected by parseConfig, not by
\* NewRelay, so an engine that main constructs has at least one target.
C8_FailFast ==
    /\ EngineExists =>
          /\ \A k \in 1..Len(config.TargetAddrs) :
                Resolvable(config.TargetAddrs[k])
          /\ env.listenOK /\ env.bindOK /\ conn = "open"
          /\ Len(targetConns) = Len(config.TargetAddrs)
          /\ \A k \in 1..Len(targetConns) :
                /\ targetConns[k].IP.host = config.TargetAddrs[k].host
                /\ targetConns[k].Port = config.TargetAddrs[k].port
          /\ env.entry = "main" => Len(targetConns) >= 1
    /\ mainPc = "failed" =>
          \/ \E k \in 1..Len(config.TargetAddrs) :
                ~Resolvable(config.TargetAddrs[k])
          \/ ~env.listenOK \/ ~env.bindOK
    /\ mainPc = "exit1" =>
          \A k \in 1..Len(env.fields) : env.fields[k].s = Empty

\* NewRelay has failed on a list whose first entry resolves and whose
\* second does not, on a host where the bind would have succeeded
C8_Witness ==
    /\ mainPc = "failed" /\ env.listenOK /\ env.bindOK
    /\ Len(config.TargetAddrs) = 2
    /\ Resolvable(config.TargetAddrs[1]) /\ ~Resolvable(config.TargetAddrs[2])

\* C9: Stop's wait ends as soon as the two loops have exited, whatever
\* forward operations are in flight, and after Stop has returned every
\* forward operation in flight can still take its next step (or waits for
\* the stats mutex, whose holder can proceed).
C9_StopIgnoresForwards ==
    /\ mainPc = "conn_closed" /\ LoopsExited => ENABLED stop_wait
    /\ StopReturned =>
          /\ \A k \in InFlight :
                \/ ENABLED forwardPacket(k)
                \/ ops[k].pc \in {"fw_wait", "err_wait"} /\ ~CanLock(mu)
          /\ HolderProceeds

\* Stop has returned and logged final stats that count fewer forwards and
\* errors than the counters hold now, with a forward still in flight
C9_Witness ==
    /\ StopReturned /\ "Final stats" \in logged
    /\ stats.PacketsForwarded > snap["main"].PacketsForwarded
    /\ stats.Errors > snap["main"].Errors
    /\ InFlight # {}

\* C10: the counters String() has read (while it holds the read lock) are
\* the counters as of the last completed update: packets and bytes
\* received agree with each other, and so do packets and bytes forwarded.
C10_SnapshotConsistent ==
    /\ rep = "runlock" =>
          /\ snap["rep"] = hist.committed
          /\ snap["rep"].BytesReceived =
                SumSizes(1..snap["rep"].PacketsReceived, 0)
    /\ mainPc = "final_runlock" =>
          /\ snap["main"] = hist.committed
          /\ snap["main"].BytesReceived =
                SumSizes(1..snap["main"].PacketsReceived, 0)
          /\ snap["main"].PacketsForwarded = Cardinality(ForwardedDone)
          /\ snap["main"].BytesForwarded = SumOps(ForwardedDone, 0)

\* the reporter holds a snapshot with a datagram counted while the receive
\* loop and a forward operation wait to update the counters
C10_Witness ==
    /\ rep = "runlock" /\ snap["rep"].PacketsReceived = 1
    /\ rl.pc = "rx_wait"
    /\ \E k \in 1..Len(ops) : ops[k].pc = "fw_wait"

Counters ==
    {"PacketsReceived", "BytesReceived", "PacketsForwarded",
     "BytesForwarded", "Errors"}

\* C11: no step of Start, the receive loop, a forward operation, the
\* reporter or Stop makes any of the five counters smaller: each counter
\* after the step is at least what it was before.
C11_CountersMonotone ==
    [][\A c \in Counters : stats'[c] >= stats[c]]_vars

\* every counter has been incremented, the second datagram being smaller
\* than the first, and Stop has returned
C11_Witness ==
    /\ \A c \in Counters : stats[c] > 0
    /\ Len(pkts) = 2 /\ Len(pkts[1].payload) > Len(pkts[2].payload)
    /\ stats.PacketsReceived = 2
    /\ StopReturned

\* the size of the datagram forward operation k was dispatched for
PayloadSize(k) == Len(pkts[ops[k].pkt].payload)

Failed(k) == ops[k].res \in {"connect", "write"}

\* what one step of forward operation k does to its outcome and to the
\* counters
OpStep(k) ==
    LET from == ops[k].pc
        to == ops'[k].pc
    IN CASE from = "start" /\ to = "fw_wait" ->
              ops'[k].res = "ok" /\ stats' = stats
         [] from = "start" /\ to = "err_wait" ->
              ops'[k].res \in {"connect", "write"} /\ stats' = stats
         [] from = "fw_wait" /\ to = "fw_bytes" ->
              stats' = [stats EXCEPT !.PacketsForwarded = @ + 1]
         [] from = "fw_bytes" /\ to = "done" ->
              ops[k].res = "ok"
              /\ stats' = [stats EXCEPT !.BytesForwarded = @ + PayloadSize(k)]
         [] from = "err_wait" /\ to = "done" ->
              Failed(k) /\ stats' = [stats EXCEPT !.Errors = @ + 1]
         [] OTHER -> FALSE

\* C12: a forward operation gets its outcome once (success, connect error
\* or write error) and keeps it; a successful one adds 1 to
\* PacketsForwarded and then the payload size to BytesForwarded and nothing
\* else, a failed one adds 1 to Errors and nothing else; once it has
\* returned it never takes a step again, and no step starts it anew. One
\* datagram fanned out to a reachable and an unreachable target leaves
\* Errors = 1 and PacketsForwarded = 1.
C12_OneOutcome ==
    /\ [][/\ Len(ops') >= Len(ops)
          /\ \A k \in 1..Len(ops) :
                /\ ops[k].pc = "done" => ops'[k] = ops[k]
                /\ ops[k].res # None => ops'[k].res = ops[k].res
                /\ ops'[k] # ops[k] => OpStep(k)]_vars
    /\ [](\A k \in 1..Len(ops) :
             ops[k].pc = "done" => ops[k].res = "ok" \/ Failed(k))
    /\ [](/\ Len(pkts) = 1 /\ Len(ops) = 2 /\ hist.readErrorsKept = 0
          /\ \A k \in 1..2 : ops[k].pc = "done"
          /\ \E k \in 1..2 : Failed(k)
          /\ \E k \in 1..2 : ops[k].res = "ok"
          => /\ stats.Errors = 1 /\ stats.PacketsForwarded = 1
             /\ stats.BytesForwarded = Len(pkts[1].payload))

\* one datagram, two targets: the forward to the first failed to connect,
\* the forward to the second succeeded, both have returned
C12_Witness ==
    /\ Len(targetConns) = 2 /\ Len(pkts) = 1 /\ Len(ops) = 2
    /\ ops[1].pc = "done" /\ ops[1].res = "connect"
    /\ ops[2].pc = "done" /\ ops[2].res = "ok"
    /\ stats.Errors = 1 /\ stats.PacketsForwarded = 1

\* AddError after a read error: Errors + 1 and nothing else, no forward
\* operation, and the loop is back at its stop check
ReadErrorCounted ==
    [][rl.pc = "err_wait" /\ rl' # rl =>
          /\ stats' = [stats EXCEPT !.Errors = @ + 1]
          /\ ops' = ops /\ wg' = wg
          /\ rl'.pc = "select"]_vars

\* the loop returns only with the stop signal raised, and with the signal
\* not raised its stop check leads to the next read
LoopExitsOnlyOnStop ==
    /\ [][rl'.pc = "exited" /\ rl.pc # "exited" => StopRequested]_vars
    /\ [][rl.pc = "select" /\ ~StopRequested /\ rl' # rl =>
             rl'.pc = "read"]_vars
    /\ [](mainPc \in {"running", "stop_signalled", "conn_closed"}
             /\ ~StopRequested => rl.pc # "exited")

\* C13 as stated: a read error that is no timeout and that ReadFromUDP
\* returned while the stop signal was not raised is kept (logged, then
\* counted once, nothing else changed) and the loop goes on; only the stop
\* signal ends the loop.
C13_Original ==
    /\ [][rl.pc = "errsel" /\ rl.err = "genuine" /\ rl' # rl =>
             rl'.pc = "err_wait" /\ stats' = stats /\ ops' = ops]_vars
    /\ ReadErrorCounted
    /\ LoopExitsOnlyOnStop

\* C13: a read error that is no timeout, for which the loop finds the stop
\* signal not raised in the select after the failed read, is kept: Errors
\* + 1 exactly, no other counter changed, no forward operation dispatched,
\* and the loop is back at its stop check, from where it reads again
\* unless the signal has been raised; with the signal raised at that
\* select the loop returns and nothing is counted, whenever the error
\* occurred. The loop never returns while the signal is not raised.
C13_ReadErrorKept ==
    /\ [][rl.pc = "errsel" /\ ~StopRequested /\ rl' # rl =>
             rl'.pc = "err_wait" /\ stats' = stats /\ ops' = ops]_vars
    /\ [][rl.pc = "errsel" /\ StopRequested /\ rl' # rl =>
             rl'.pc = "exited" /\ stats' = stats /\ ops' = ops]_vars
    /\ ReadErrorCounted
    /\ LoopExitsOnlyOnStop

\* a read error has been counted, nothing else has, and the loop is at the
\* next read with no stop requested
C13_Witness ==
    /\ hist.readErrorsKept = 1 /\ rl.pc = "read" /\ ~StopRequested
    /\ stats = [ZeroStats EXCEPT !.Errors = 1]
    /\ ops = << >>

ErrorLines ==
    {"Error reading UDP packet", "Error connecting to target",
     "Error forwarding"}

VerboseLines ==
    {"Received", "Forwarded", "Skipping forward to source", "Stats"}

C15_TimeoutIsNoError ==
    /\ [][rl_read_timeout =>
             /\ stats' = stats /\ ops' = ops /\ logged' = logged
             /\ pkts' = pkts /\ wg' = wg
             /\ rl'.pc = "select"]_vars
    /\ [][rl'.pc = "read" /\ rl' # rl =>
             rl.pc = "select" /\ ~StopRequested]_vars
    /\ [][rl.pc = "select" /\ StopRequested /\ rl' # rl =>
             rl'.pc = "exited"]_vars
    /\ [](hist.readsAfterStop <= 1)

\* the stop signal was raised during a read that then timed out: the loop
\* is back at its stop check, nothing counted, nothing dispatched
C15_Witness ==
    /\ rl.pc = "select" /\ StopRequested /\ conn = "open"
    /\ hist.readsAfterStop = 1 /\ hist.readErrors = 0
    /\ stats = ZeroStats /\ ops = << >> /\ pkts = << >>

\* (datagram, target entry, size) of the forward operations dispatched
Dispatched == { << ops[k].pkt, ops[k].tgt, ops[k].n >> : k \in 1..Len(ops) }

\* what the datagrams received and the target sequence alone determine:
\* one forward operation per target entry passed that is not the source
DispatchDue ==
    { << x[1], x[2], Len(pkts[x[1]].payload) >> :
        x \in { y \in (1..Len(pkts)) \X (1..Len(targetConns)) :
                  FannedOut(y[1], y[2])
                  /\ ~SameEndpoint(pkts[y[1]].src, targetConns[y[2]]) } }

\* C16: Start launches the reporter exactly if Verbose is set; no step of
\* the reporter changes a counter, the targets, the socket, the lifecycle
\* state, the stop signal, the receive loop or a forward operation; the
\* forward operations dispatched are determined by the datagrams received
\* and the targets, the same whether a reporter runs or not; once the stop
\* signal is raised the reporter, if started, exits.
C16_ReporterObserves ==
    /\ [](Lifecycle = "Created" => rep = "idle")
    /\ [](Lifecycle # "Created" => (rep # "idle" <=> config.Verbose))
    /\ [][rep # "idle" /\ rep' # rep =>
             UNCHANGED << stats, targetConns, conn, mainPc, stopChan, config,
                          rl, buffer, ops, pkts >>]_vars
    /\ [](Dispatched = DispatchDue /\ Cardinality(Dispatched) = Len(ops))
    /\ StopRequested ~> rep \in {"idle", "exited"}

\* the reporter has reported while a datagram was counted and forwarded,
\* and has exited after the stop signal
C16_Witness ==
    /\ rep = "exited" /\ "Stats" \in logged
    /\ stats.PacketsReceived = 2 /\ stats.PacketsForwarded >= 1
    /\ Len(ops) >= 1

AllResolvable ==
    \A k \in 1..Len(config.TargetAddrs) : Resolvable(config.TargetAddrs[k])

\* C17: when NewRelay has returned an error no socket is open and no
\* goroutine has been started; the socket is bound only after every target
\* has been resolved, so with a target that does not resolve no socket is
\* ever opened; NewRelay fails only on a target resolution, listen address
\* resolution or bind failure, and a failed SetReadBuffer leaves an engine
\* with its socket open and a warning in the log.
C17_CleanFailure ==
    /\ mainPc = "failed" =>
          /\ conn = "none"
          /\ rl.pc = "idle" /\ rep = "idle" /\ wg = 0 /\ ops = << >>
          /\ ~AllResolvable \/ ~env.listenOK \/ ~env.bindOK
    /\ conn # "none" =>
          AllResolvable /\ Len(targetConns) = Len(config.TargetAddrs)
    /\ mainPc = "created" =>
          /\ conn = "open"
          /\ ~env.bufOK <=>
                "Warning: failed to set read buffer size" \in logged

\* NewRelay has failed at the bind, after resolving two targets: no socket
C17_Witness ==
    /\ mainPc = "failed" /\ ~env.bindOK /\ env.listenOK
    /\ Len(config.TargetAddrs) = 2 /\ Len(targetConns) = 2
    /\ conn = "none"

\* C18: once Stop has returned, no step changes PacketsReceived or
\* BytesReceived, the receive loop takes no step (so it attempts no read
\* and receives nothing), and no forward operation is added; a step that
\* changes PacketsForwarded, BytesForwarded or Errors is a step of a forward
\* operation dispatched earlier.
C18_ReceiveSideFrozen ==
    /\ [](StopReturned => rl.pc = "exited")
    /\ [][Lifecycle = "Stopped" =>
             /\ stats'.PacketsReceived = stats.PacketsReceived
             /\ stats'.BytesReceived = stats.BytesReceived
             /\ rl' = rl /\ pkts' = pkts /\ buffer' = buffer
             /\ hist'.readsAfterStop = hist.readsAfterStop
             /\ Len(ops') = Len(ops)
             /\ stats' # stats =>
                   \E k \in 1..Len(ops) : ops'[k].pc # ops[k].pc]_vars

\* Stop has returned with both datagrams counted; a forward operation
\* dispatched before the loop exited has been counted since, another is
\* still to write
C18_Witness ==
    /\ StopReturned /\ stats.PacketsReceived = 2
    /\ stats.PacketsForwarded > snap["main"].PacketsForwarded
    /\ \E k \in 1..Len(ops) : ops[k].pc = "start"

FailedOps == { k \in 1..Len(ops) : Failed(k) }

\* failed forward operations whose AddError has returned
FailedCounted == { k \in FailedOps : ops[k].pc = "done" }

\* an error is between its occurrence and the return of its AddError
ErrorPending ==
    \/ rl.pc \in {"errsel", "err_wait"}
    \/ \E k \in 1..Len(ops) : ops[k].pc = "err_wait"

\* C19 as stated: Errors is the number of read errors that are no timeout
\* and that the loop got while shutdown was not requested plus the number
\* of forward operations that have failed; here only for the states in
\* which no error is still on its way to AddError.
C19_Original ==
    ~ErrorPending =>
        stats.Errors = hist.readErrorsRunning + Cardinality(FailedOps)

\* C19: in every state Errors is the number of read errors the loop kept
\* (no timeout, stop signal not raised at the select after the read) whose
\* AddError has returned plus the number of failed forward operations
\* whose AddError has returned. The errors kept are among those the loop
\* got on the open socket while the stop signal was not raised, but not
\* all of them: one is dropped if the signal is raised before the select.
\* Nothing else adds to Errors, so with no error kept and no forward
\* failed it is zero whatever timeouts, skips and close-induced errors
\* there were.
C19_ErrorsAccounting ==
    /\ stats.Errors =
          hist.readErrorsKept - (IF rl.pc = "err_wait" THEN 1 ELSE 0)
          + Cardinality(FailedCounted)
    /\ hist.readErrorsKept <= hist.readErrorsRunning
    /\ hist.readErrorsRunning <= hist.readErrors
    /\ stats.Errors <= hist.readErrorsRunning + Cardinality(FailedOps)

\* a kept read error and a failed forward are counted; there was a skip of
\* the source, and the loop has returned from a read that ended after the
\* stop signal
C19_Witness ==
    /\ stats.Errors = 2 /\ hist.readErrorsKept = 1
    /\ Cardinality(FailedCounted) = 1
    /\ "Skipping forward to source" \in logged
    /\ rl.pc = "exited" /\ hist.readsAfterStop = 1 /\ conn = "closed"

\* forward operations counted in PacketsForwarded
Succeeded ==
    { k \in 1..Len(ops) :
        ops[k].res = "ok" /\ ops[k].pc \in {"fw_bytes", "done"} }

\* forward operations dispatched that have neither failed nor been counted
NotCompleted == { k \in 1..Len(ops) : ops[k].pc \in {"start", "fw_wait"} }

\* (datagram, target entry) pairs with the target not the datagram's source
ForwardPairs ==
    { x \in (1..Len(pkts)) \X (1..Len(targetConns)) :
        ~SameEndpoint(pkts[x[1]].src, targetConns[x[2]]) }

\* the receive loop is not between a read and the end of its fan-out
BetweenDatagrams ==
    rl.pc \in {"idle", "select", "read", "copying", "errsel", "err_wait",
               "exited"}

\* C20: in every state the forward operations counted in PacketsForwarded,
\* those that failed and those not yet completed are all the forward
\* operations dispatched, each in one of the three; the number dispatched
\* is the number of (datagram, target entry) pairs the fan-out loop has
\* passed whose target is not the source, which between datagrams is the
\* sum over the received datagrams of the targets that are not the source;
\* PacketsForwarded <= PacketsReceived * number of targets; and every
\* forward operation belongs to a datagram whose AddReceived has returned.
C20_ForwardConservation ==
    /\ stats.PacketsForwarded = Cardinality(Succeeded)
    /\ Succeeded \cap FailedOps = {} /\ Succeeded \cap NotCompleted = {}
    /\ FailedOps \cap NotCompleted = {}
    /\ Cardinality(Succeeded) + Cardinality(FailedOps)
          + Cardinality(NotCompleted) = Len(ops)
    /\ Len(ops) = Cardinality(DispatchDue)
    /\ BetweenDatagrams => Len(ops) = Cardinality(ForwardPairs)
    /\ Len(ops) <= Cardinality(ForwardPairs)
    /\ stats.PacketsForwarded <= stats.PacketsReceived * Len(targetConns)
    /\ \A k \in 1..Len(ops) : ops[k].pkt \in ReceivedDone

\* targets A:1 and B:1; the datagram from A:1 gave one forward operation,
\* the one from A:2 two; one is counted, one has failed, one is not
\* completed
C20_Witness ==
    /\ Len(targetConns) = 2 /\ Len(pkts) = 2 /\ BetweenDatagrams
    /\ Cardinality(ForwardPairs) = 3 /\ Len(ops) = 3
    /\ Cardinality(Succeeded) = 1 /\ Cardinality(FailedOps) = 1
    /\ Cardinality(NotCompleted) = 1
    /\ stats.PacketsForwarded = 1

====
